---- MODULE Spec2Model ----
(***************************************************************************)
(* A model of the request handlers of drf_ecommerce: the cart -> checkout  *)
(* -> order ledger (apps/shop/views.py), the review ledger                 *)
(* (apps/shop/views.py) and the seller product surface                     *)
(* (apps/sellers/views.py).  In SpecCart, SpecReview, SpecSeller and       *)
(* SpecSellerOrders every action is one HTTP request handled to completion *)
(* against the relational store; in SpecCartRace, SpecCheckoutRace and     *)
(* SpecReviewRace two workers run handlers one database statement per      *)
(* step.  `resp` is the response the last answered request got.            *)
(***************************************************************************)
EXTENDS Integers, FiniteSets, Sequences, TLC

\* ------------------------------------------------------------------ bounds
MaxItems == 2      \* OrderItem rows ever inserted
MaxOrders == 2     \* Order rows ever inserted
MaxReviews == 2    \* Review rows ever inserted
MaxPrice == 2      \* prices are 1..MaxPrice

\* price_old is null
NoPrice == 0

\* order_id=None: the order reference of a cart line
NoOrder == 0

\* ------------------------------------------------------------- fixed sets
Users == {"u1", "u2"}
\* product slugs a request may name; "novel" names no product in Init
Slugs == {"widget", "gadget", "novel"}
\* the shipping addresses in the store: identifier, owner, address fields
ShippingAddresses ==
    { [id |-> "s1", user |-> "u1", details |-> "addr-1"],
      [id |-> "s2", user |-> "u2", details |-> "addr-2"] }
\* what a checkout request may carry as shipping_id: a stored identifier, a
\* well-formed UUID of no address, a string that is no UUID, or nothing
\* the quantities a toggle request may carry; -1 fails validation
Quantities == {-1, 0, 1, 2}
ShippingInputs == {"s1", "s2", "s-unknown", "malformed", "missing"}

VARIABLES
    products,    \* Product rows visible through the manager
    items,       \* OrderItem rows: cart lines (order = NoOrder) and order lines
    orders,      \* Order rows
    nextItem,    \* identifier of the next OrderItem row
    nextOrder,   \* identifier of the next Order row
    removed,     \* history: the (user, product) whose existing cart line a toggle removed
    reviews,     \* Review rows visible through the manager
    nextReview,  \* identifier of the next Review row
    sellers,     \* per user: no Seller row, one awaiting approval, or an approved one
    resp,        \* the response to the last request
    inflight     \* per worker: the request it is in the middle of, with its locals

vars == <<products, items, orders, nextItem, nextOrder, removed, reviews,
          nextReview, sellers, resp, inflight>>

\* the workers that handle requests side by side
Reqs == {"r1", "r2"}

\* a worker between two requests
Idle == [pc |-> "idle"]

cartVars == <<items, orders, nextItem, nextOrder, removed>>
reviewVars == <<reviews, nextReview>>

\* ---------------------------------------------------------------- helpers
\* Manager.get_or_none: the single matching row as a set of at most one row
get_or_none(rows) == IF Cardinality(rows) = 1 THEN rows ELSE {}

\* a plausible slip: the slug filter is dropped and any product is taken
ProductBySlugFirst(s) ==
    IF products = {} THEN {} ELSE {CHOOSE p \in products : TRUE}

\* Product.objects.get_or_none(slug=slug)
ProductBySlug(s) == get_or_none({p \in products : p.slug = s})

\* OrderItem.objects.filter(user=user, order=None)
CartLines(u) == {i \in items : i.user = u /\ i.order = NoOrder}

\* a plausible slip: the upsert lookup drops order_id=None
CartLineAnyOrder(u, s) == {i \in items : i.user = u /\ i.product = s}

\* the rows update_or_create looks up: user, order_id=None, product
CartLine(u, s) == {i \in CartLines(u) : i.product = s}

\* rest_framework Response: status code, message, and the serialized item or
\* order of the body (the empty set is null / no such key).  target echoes
\* the acting user and the slug of a request on a product URL (<<>> for the
\* cart and checkout requests).
Response(op, status, msg, target, item, order) ==
    [op |-> op, status |-> status, msg |-> msg, target |-> target,
     item |-> item, order |-> order]

\* OrderItemSerializer: product and quantity of the line
OrderItemSerializer(orderitem) ==
    [product |-> orderitem.product, quantity |-> orderitem.quantity]

\* ToggleCartItemSerializer: quantity is an integer >= 0
ToggleCartItemValid(q) == q >= 0

\* a plausible slip: the upsert always inserts
AlwaysCreate(u, s, q, id) ==
    LET row == [id |-> id, user |-> u, product |-> s, quantity |-> q, order |-> NoOrder]
    IN  [error |-> FALSE, created |-> TRUE, obj |-> {row},
         rows |-> items \cup {row}]

\* OrderItem.objects.update_or_create(user, order_id=None, product,
\* defaults={'quantity': q}): one match is updated, none is created, several
\* raise MultipleObjectsReturned
update_or_create(u, s, q, id) ==
    LET found == CartLine(u, s)
        row == [id |-> id, user |-> u, product |-> s, quantity |-> q, order |-> NoOrder]
    IN  IF Cardinality(found) > 1
        THEN [error |-> TRUE, created |-> FALSE, obj |-> {}, rows |-> items]
        ELSE IF found = {}
        THEN [error |-> FALSE, created |-> TRUE, obj |-> {row},
              rows |-> items \cup {row}]
        ELSE LET old == CHOOSE i \in found : TRUE
                 new == [old EXCEPT !.quantity = q]
             IN  [error |-> FALSE, created |-> FALSE, obj |-> {new},
                  rows |-> (items \ {old}) \cup {new}]

\* a plausible slip: the row with quantity 0 is kept
KeepRow(rows, row) == rows

\* orderitem.delete()
DeleteRow(rows, row) == rows \ {row}

\* ------------------------------------------------------------------- Init
Init ==
    /\ products = { [slug |-> "widget", seller |-> "u1", price_current |-> 1,
                     price_old |-> NoPrice, category |-> "tools"],
                    [slug |-> "gadget", seller |-> "u1", price_current |-> 2,
                     price_old |-> NoPrice, category |-> "tools"] }
    /\ items = {}
    /\ orders = {}
    /\ nextItem = 1
    /\ nextOrder = 1
    /\ removed = {}
    /\ reviews = {}
    /\ nextReview = 1
    /\ sellers = [u \in Users |-> IF u = "u1" THEN "approved" ELSE "none"]
    /\ resp = Response("none", 0, "", <<>>, {}, {})
    /\ inflight = [r \in Reqs |-> Idle]

\* ------------------------------------------------------------ CartView.post
ToggleInvalid(u, s, q) ==
    /\ ~ToggleCartItemValid(q)
    /\ resp' = Response("toggle", 400, "invalid", <<>>, {}, {})
    /\ UNCHANGED <<products, sellers, cartVars, reviewVars>>

ToggleNoProduct(u, s, q) ==
    /\ ToggleCartItemValid(q)
    /\ ProductBySlug(s) = {}
    /\ resp' = Response("toggle", 404, "Product does not exist", <<>>, {}, {})
    /\ UNCHANGED <<products, sellers, cartVars, reviewVars>>

ToggleUpsert(u, s, q) ==
    /\ ToggleCartItemValid(q)
    /\ ProductBySlug(s) # {}
    /\ LET r == update_or_create(u, s, q, nextItem)
           status_code == IF r.created THEN 201 ELSE 200
       IN  IF r.error
           THEN /\ resp' = Response("toggle", 500, "raw", <<>>, {}, {})
                /\ UNCHANGED <<items, nextItem, removed>>
           ELSE /\ r.created => nextItem <= MaxItems
                /\ nextItem' = IF r.created THEN nextItem + 1 ELSE nextItem
                /\ LET orderitem == CHOOSE i \in r.obj : TRUE
                   IN  IF orderitem.quantity = 0
                       THEN /\ items' = DeleteRow(r.rows, orderitem)
                            /\ removed' = IF r.created THEN removed
                                          ELSE removed \cup {<<u, s>>}
                            /\ resp' = Response("toggle", status_code,
                                                "Removed from", <<>>, {}, {})
                       ELSE /\ items' = r.rows
                            /\ removed' = removed
                            /\ resp' = Response("toggle", status_code,
                                                IF r.created THEN "Added to"
                                                             ELSE "Updated in",
                                                <<>>,
                                                {OrderItemSerializer(orderitem)}, {})
    /\ UNCHANGED <<products, sellers, reviewVars, orders, nextOrder>>

Toggle(u, s, q) ==
    \/ ToggleInvalid(u, s, q)
    \/ ToggleNoProduct(u, s, q)
    \/ ToggleUpsert(u, s, q)

CartPost ==
    /\ UNCHANGED inflight
    /\ \E u \in Users, s \in Slugs, q \in Quantities : Toggle(u, s, q)

\* -------------------------------------------------------- CheckoutView.post
\* CheckoutSerializer: shipping_id is a required UUIDField
CheckoutSerializerValid(sh) == sh \notin {"malformed", "missing"}

\* a plausible slip: an identifier of no address falls back to a stored one
ShippingByIdOrFirst(sh) ==
    IF \E a \in ShippingAddresses : a.id = sh
    THEN {a \in ShippingAddresses : a.id = sh}
    ELSE {CHOOSE a \in ShippingAddresses : TRUE}

\* ShippingAddress.objects.get_or_none(id=shipping_id)
ShippingById(sh) == get_or_none({a \in ShippingAddresses : a.id = sh})

\* a plausible slip: the request body is validated before the cart is read
CheckoutOutcomeValidateFirst(u, sh) ==
    IF ~CheckoutSerializerValid(sh) THEN "invalid"
    ELSE IF CartLines(u) = {} THEN "empty"
    ELSE IF ShippingById(sh) = {} THEN "no-shipping"
    ELSE "ok"

\* the order of the checks of post: empty cart, then the serializer, then
\* the shipping address
CheckoutOutcome(u, sh) ==
    IF CartLines(u) = {} THEN "empty"
    ELSE IF ~CheckoutSerializerValid(sh) THEN "invalid"
    ELSE IF ShippingById(sh) = {} THEN "no-shipping"
    ELSE "ok"

\* a plausible slip: only one of the cart lines is re-pointed
UpdateOneOrder(u, oid) ==
    IF CartLines(u) = {} THEN items
    ELSE LET one == CHOOSE i \in CartLines(u) : TRUE
         IN  (items \ {one}) \cup {[one EXCEPT !.order = oid]}

\* orderitems.update(order=order) on filter(user=user, order=None): one bulk
\* UPDATE of every row that is a cart line of the user when it runs
UpdateOrder(u, oid) ==
    (items \ CartLines(u)) \cup {[i EXCEPT !.order = oid] : i \in CartLines(u)}

CheckoutEmpty(u, sh) ==
    /\ CheckoutOutcome(u, sh) = "empty"
    /\ resp' = Response("checkout", 404, "No Items in Cart", <<>>, {}, {})
    /\ UNCHANGED <<products, sellers, cartVars, reviewVars>>

CheckoutInvalid(u, sh) ==
    /\ CheckoutOutcome(u, sh) = "invalid"
    /\ resp' = Response("checkout", 400, "invalid", <<>>, {}, {})
    /\ UNCHANGED <<products, sellers, cartVars, reviewVars>>

CheckoutNoShipping(u, sh) ==
    /\ CheckoutOutcome(u, sh) = "no-shipping"
    /\ resp' = Response("checkout", 404, "No shipping address with that ID", <<>>, {}, {})
    /\ UNCHANGED <<products, sellers, cartVars, reviewVars>>

CheckoutOk(u, sh) ==
    /\ CheckoutOutcome(u, sh) = "ok"
    /\ nextOrder <= MaxOrders
    /\ LET shipping == CHOOSE a \in ShippingById(sh) : TRUE
           order == [id |-> nextOrder, user |-> u, details |-> shipping.details]
       IN  /\ orders' = orders \cup {order}
           /\ items' = UpdateOrder(u, order.id)
           /\ resp' = Response("checkout", 201, "Checkout Successful", <<>>, {}, {order.id})
    /\ nextOrder' = nextOrder + 1
    /\ UNCHANGED <<products, sellers, reviewVars, nextItem, removed>>

Checkout(u, sh) ==
    \/ CheckoutEmpty(u, sh)
    \/ CheckoutInvalid(u, sh)
    \/ CheckoutNoShipping(u, sh)
    \/ CheckoutOk(u, sh)

CheckoutPost ==
    /\ UNCHANGED inflight
    /\ \E u \in Users, sh \in ShippingInputs : Checkout(u, sh)

NextCart == CartPost \/ CheckoutPost

SpecCart == Init /\ [][NextCart]_vars

\* ------------------------------------------------- cart and checkout claims
ItemIds(rows) == {i.id : i \in rows}

\* the toggle of (u, s, q) reached the upsert: valid input, product found
Upserts(u, s, q) == Toggle(u, s, q) /\ ToggleCartItemValid(q) /\ ProductBySlug(s) # {}

\* C1: for sequential callers there is at most one cart line per (user,
\* product) after every request; a toggle with quantity q > 0 on a pair that
\* has a cart line overwrites that line's quantity and adds no row, and on a
\* pair without one it adds exactly one row with quantity q.
C1_OneCartLinePerPair ==
    [][ /\ items' # items =>
              \A u \in Users, s \in Slugs : Cardinality(CartLine(u, s))' <= 1
        /\ (resp'.op = "toggle" /\ resp'.status \in {200, 201}) =>
            \A u \in Users, s \in Slugs, q \in Quantities :
              (q > 0 /\ resp'.item = {[product |-> s, quantity |-> q]}
                     /\ Upserts(u, s, q)) =>
                 /\ \E l \in items' :
                       /\ CartLine(u, s)' = {l}
                       /\ l.quantity = q
                       /\ CartLine(u, s) # {} => ItemIds(CartLine(u, s)) = {l.id}
                       /\ items' \ {l} = items \ CartLine(u, s)
                 /\ Cardinality(items') = Cardinality(items)
                        + (IF CartLine(u, s) = {} THEN 1 ELSE 0) ]_vars

\* C1 witness: a second toggle of the same pair answered 200 and the pair's
\* single line carries the new quantity
C1_Witness ==
    /\ resp.op = "toggle" /\ resp.status = 200 /\ resp.msg = "Updated in"
    /\ \E u \in Users, s \in Slugs : \E l \in items :
          CartLine(u, s) = {l} /\ resp.item = {OrderItemSerializer(l)}

\* C2: after a successful checkout by u, u has no cart line left and the
\* items attached to the new order are as many as the cart lines u had
\* immediately before.
C2_CheckoutMovesCart ==
    [][ (resp'.op = "checkout" /\ resp'.status = 201) =>
        \A u \in Users, sh \in ShippingInputs :
          Checkout(u, sh) =>
             /\ CartLines(u)' = {}
             /\ \E o \in orders' \ orders :
                   /\ resp'.order = {o.id}
                   /\ o.user = u
                   /\ Cardinality({i \in items' : i.order = o.id})
                         = Cardinality(CartLines(u)) ]_vars

\* C2 witness: a checkout succeeded and its order holds two items
C2_Witness ==
    /\ resp.op = "checkout" /\ resp.status = 201
    /\ \E o \in orders :
          /\ resp.order = {o.id}
          /\ Cardinality({i \in items : i.order = o.id}) = 2
          /\ CartLines(o.user) = {}

\* C3: a checkout by a user whose cart is empty answers 404 whatever the
\* shipping input is, and creates no Order.
C3_EmptyCartNotFound ==
    [][ resp'.op = "checkout" =>
        \A u \in Users, sh \in ShippingInputs :
          (CartLines(u) = {} /\ Checkout(u, sh)) =>
             /\ resp'.status = 404
             /\ resp'.msg = "No Items in Cart"
             /\ orders' = orders
             /\ items' = items ]_vars

\* C3 witness: every user's cart is empty although items exist, and the
\* last checkout was answered with the empty-cart 404
C3_Witness ==
    /\ resp.op = "checkout" /\ resp.status = 404 /\ resp.msg = "No Items in Cart"
    /\ \A u \in Users : CartLines(u) = {}
    /\ orders # {}

\* C4: toggling an existing cart line to quantity 0 deletes that line and
\* returns no item payload; the next toggle of the same (user, product) with
\* quantity > 0 answers 201 and yields a fresh cart line with that quantity.
C4_ZeroThenRecreate ==
    [][ (resp'.op = "toggle" /\ resp'.status \notin {400, 404}) =>
        \A u \in Users, s \in Slugs :
          /\ (CartLine(u, s) # {} /\ Upserts(u, s, 0)) =>
                /\ CartLine(u, s)' = {}
                /\ items' = items \ CartLine(u, s)
                /\ resp'.item = {}
                /\ resp'.status # 500
          /\ \A q \in Quantities :
                (q > 0 /\ <<u, s>> \in removed /\ CartLine(u, s) = {}
                       /\ Upserts(u, s, q)) =>
                   /\ resp'.status = 201
                   /\ \E l \in items' \ items :
                         /\ CartLine(u, s)' = {l}
                         /\ l.quantity = q
                         /\ l.id >= nextItem
                         /\ resp'.item = {OrderItemSerializer(l)} ]_vars

\* C4 witness: a pair whose line a zero toggle deleted holds a line again,
\* and the last response is the 201 of that creation
C4_Witness ==
    /\ resp.op = "toggle" /\ resp.status = 201 /\ resp.msg = "Added to"
    /\ \E u \in Users, s \in Slugs : \E l \in items :
          /\ <<u, s>> \in removed
          /\ CartLine(u, s) = {l}
          /\ resp.item = {OrderItemSerializer(l)}
          /\ \A v \in Users \ {u} : CartLine(v, s) = {}

\* C5: the toggle's status is 201 when a cart line is created, 200 when an
\* existing line is updated to a nonzero quantity, and 200 whenever the
\* toggle ends in removal (quantity 0, item null): a removal never answers
\* 201.
C5_StatusByOutcome ==
    [][ \A u \in Users, s \in Slugs, q \in Quantities :
          Upserts(u, s, q) =>
             resp'.status = IF q = 0 THEN 200
                            ELSE IF CartLine(u, s) = {} THEN 201 ELSE 200 ]_vars

\* C12: a checkout with a non-empty cart whose shipping identifier names no
\* stored address (a well-formed unknown one, a malformed one, or none at
\* all) is answered with an error, 404 for the well-formed unknown one and a
\* validation error otherwise, and changes nothing: no Order is created and
\* every cart line stays a cart line.  (Stated per step: a checkout step is
\* such a refusal that changes nothing, or it is no such request.)
C12_BadShippingRejected ==
    [][ resp'.op = "checkout" =>
        \A sh \in ShippingInputs \ {a.id : a \in ShippingAddresses} :
          \/ /\ resp'.status = IF sh = "s-unknown" THEN 404 ELSE 400
             /\ resp'.order = {}
             /\ orders' = orders
             /\ items' = items
          \/ \A u \in Users : CartLines(u) # {} => ~Checkout(u, sh) ]_vars

\* C12 witness: a checkout was refused for its shipping address while some
\* user holds a cart line and no order exists
C12_Witness ==
    /\ resp.op = "checkout" /\ resp.status = 404
    /\ resp.msg = "No shipping address with that ID"
    /\ orders = {}
    /\ \E u \in Users : CartLines(u) # {}

\* C13: a toggle with a valid quantity whose slug matches no product answers
\* 404 and leaves every OrderItem as it was: none created, updated, deleted.
\* (Stated per step: a toggle step is such a 404 that changes nothing, or it
\* is no such request.)
C13_NoProductNotFound ==
    [][ resp'.op = "toggle" =>
          \/ /\ resp'.status = 404
             /\ resp'.item = {}
             /\ items' = items
             /\ nextItem' = nextItem
          \/ \A s \in Slugs \ {p.slug : p \in products} :
                \A u \in Users, q \in Quantities :
                   ToggleCartItemValid(q) => ~Toggle(u, s, q) ]_vars

\* C13 witness: the last toggle was answered 404 for its product while cart
\* lines exist
C13_Witness ==
    /\ resp.op = "toggle" /\ resp.status = 404
    /\ resp.msg = "Product does not exist"
    /\ \E i \in items : i.order = NoOrder

\* C14: an OrderItem whose order reference is set stays as it is through
\* every later request: same order, same quantity, never deleted.  A toggle
\* creates or changes only rows with order=None, and a row gains an order
\* reference only from being a cart line.
C14_OrderLinesFrozen ==
    [][ items' # items =>
          /\ \A i \in items : i.order # NoOrder => i \in items'
          /\ resp'.op = "toggle" => \A i \in items' \ items : i.order = NoOrder
          /\ \A i \in items' \ items :
                i.order # NoOrder => [i EXCEPT !.order = NoOrder] \in items ]_vars

\* C14 witness: a user holds an order line and, from a toggle after that
\* checkout, a cart line of the same product with another quantity
C14_Witness ==
    /\ resp.op = "toggle" /\ resp.status = 201
    /\ \E i \in items, j \in items :
          /\ i.order # NoOrder /\ j.order = NoOrder
          /\ i.user = j.user /\ i.product = j.product
          /\ i.quantity # j.quantity
          /\ resp.item = {OrderItemSerializer(j)}

\* C18: the shipping details an Order carries are those of a shipping
\* address owned by the user the order belongs to.
C18_OwnShippingOnly ==
    \A o \in orders :
       \E a \in ShippingAddresses : a.user = o.user /\ a.details = o.details

\* ============================================================ review ledger
\* the review identifiers a URL may carry
ReviewIds == 1..MaxReviews

\* request bodies of review create and update: each key is absent ({}) or
\* carries one value
ReviewBodies ==
    { [rating |-> {5}, text |-> {"good"}],
      [rating |-> {1}, text |-> {"bad"}],
      [rating |-> {}, text |-> {"good"}],
      [rating |-> {6}, text |-> {"good"}],
      [rating |-> {5}, text |-> {}] }

\* Create/UpdateReviewSerializer: text is required; rating, when given, is
\* within 1..5
ReviewSerializerValid(body) ==
    /\ body.text # {}
    /\ \A r \in body.rating : 1 <= r /\ r <= 5

\* validated_data: rating falls back to default=0 when the key is absent
ReviewValidatedData(body) ==
    [rating |-> IF body.rating = {} THEN 0 ELSE CHOOSE r \in body.rating : TRUE,
     text |-> CHOOSE x \in body.text : TRUE]

\* a plausible slip: the existence check is dropped
ReviewExistsNever(u, s) == FALSE

\* product.reviews.filter(user=request.user).exists()
ReviewExists(u, s) == \E r \in reviews : r.product = s /\ r.user = u

\* a plausible slip: the lookup of a single review drops user=user
ReviewLookupAnyUser(u, s, id) ==
    {r \in reviews : r.product = s /\ r.id = id}

\* the rows matching product=product, user=user, id=uuid
ReviewLookup(u, s, id) ==
    {r \in reviews : r.product = s /\ r.user = u /\ r.id = id}

\* ---------------------------------------------------- CreateReviewView.post
CreateReviewNoProduct(u, s, body) ==
    /\ ProductBySlug(s) = {}
    /\ resp' = Response("review-create", 404,
                        "Create is impossible, product does not exist!",
                        <<>>, {}, {})
    /\ UNCHANGED <<products, sellers, cartVars, reviewVars>>

CreateReviewDuplicate(u, s, body) ==
    /\ ProductBySlug(s) # {}
    /\ ReviewExists(u, s)
    /\ resp' = Response("review-create", 400, "Review already exists!",
                        <<>>, {}, {})
    /\ UNCHANGED <<products, sellers, cartVars, reviewVars>>

CreateReviewInvalid(u, s, body) ==
    /\ ProductBySlug(s) # {}
    /\ ~ReviewExists(u, s)
    /\ ~ReviewSerializerValid(body)
    /\ resp' = Response("review-create", 400, "invalid", <<>>, {}, {})
    /\ UNCHANGED <<products, sellers, cartVars, reviewVars>>

CreateReviewOk(u, s, body) ==
    /\ ProductBySlug(s) # {}
    /\ ~ReviewExists(u, s)
    /\ ReviewSerializerValid(body)
    /\ nextReview <= MaxReviews
    /\ LET data == ReviewValidatedData(body)
           new_review == [id |-> nextReview, user |-> u, product |-> s,
                          rating |-> data.rating, text |-> data.text]
       IN  /\ reviews' = reviews \cup {new_review}
           /\ resp' = Response("review-create", 201, "", <<>>, {data}, {})
    /\ nextReview' = nextReview + 1
    /\ UNCHANGED <<products, sellers, cartVars>>

CreateReview(u, s, body) ==
    \/ CreateReviewNoProduct(u, s, body)
    \/ CreateReviewDuplicate(u, s, body)
    \/ CreateReviewInvalid(u, s, body)
    \/ CreateReviewOk(u, s, body)

\* -------------------------------------------------------- ReviewItemView.get
ReviewGetNoProduct(u, s, id) ==
    /\ ProductBySlug(s) = {}
    /\ resp' = Response("review-get", 404, "Product does not exist!",
                        <<>>, {}, {})
    /\ UNCHANGED <<products, sellers, cartVars, reviewVars>>

\* Review.objects.get(...) raises Review.DoesNotExist when no row matches;
\* nothing catches it, so the request ends in the framework's 500
ReviewGetRaises(u, s, id) ==
    /\ ProductBySlug(s) # {}
    /\ ReviewLookup(u, s, id) = {}
    /\ resp' = Response("review-get", 500, "raw", <<>>, {}, {})
    /\ UNCHANGED <<products, sellers, cartVars, reviewVars>>

ReviewGetOk(u, s, id) ==
    /\ ProductBySlug(s) # {}
    /\ ReviewLookup(u, s, id) # {}
    /\ LET review == CHOOSE r \in ReviewLookup(u, s, id) : TRUE
       IN  resp' = Response("review-get", 200, "Review retrieved successfully.",
                            <<>>,
                            {[rating |-> review.rating, text |-> review.text]}, {})
    /\ UNCHANGED <<products, sellers, cartVars, reviewVars>>

ReviewGet(u, s, id) ==
    \/ ReviewGetNoProduct(u, s, id)
    \/ ReviewGetRaises(u, s, id)
    \/ ReviewGetOk(u, s, id)

\* ----------------------------------------------------- ReviewItemView.delete
ReviewDeleteNoProduct(u, s, id) ==
    /\ ProductBySlug(s) = {}
    /\ resp' = Response("review-delete", 404,
                        "Delete is impossible, product does not exist!",
                        <<>>, {}, {})
    /\ UNCHANGED <<products, sellers, cartVars, reviewVars>>

\* Review.objects.get(...) raises Review.DoesNotExist, as in get
ReviewDeleteRaises(u, s, id) ==
    /\ ProductBySlug(s) # {}
    /\ ReviewLookup(u, s, id) = {}
    /\ resp' = Response("review-delete", 500, "raw", <<>>, {}, {})
    /\ UNCHANGED <<products, sellers, cartVars, reviewVars>>

ReviewDeleteOk(u, s, id) ==
    /\ ProductBySlug(s) # {}
    /\ ReviewLookup(u, s, id) # {}
    /\ reviews' = reviews \ ReviewLookup(u, s, id)
    /\ resp' = Response("review-delete", 200, "Reviews deleted successfully.",
                        <<>>, {}, {})
    /\ UNCHANGED <<products, sellers, cartVars, nextReview>>

ReviewDelete(u, s, id) ==
    \/ ReviewDeleteNoProduct(u, s, id)
    \/ ReviewDeleteRaises(u, s, id)
    \/ ReviewDeleteOk(u, s, id)

\* -------------------------------------------------------- ReviewItemView.put
ReviewPutNoProduct(u, s, id, body) ==
    /\ ProductBySlug(s) = {}
    /\ resp' = Response("review-put", 404,
                        "Change is impossible, product does not exist!",
                        <<>>, {}, {})
    /\ UNCHANGED <<products, sellers, cartVars, reviewVars>>

ReviewPutNoReview(u, s, id, body) ==
    /\ ProductBySlug(s) # {}
    /\ get_or_none(ReviewLookup(u, s, id)) = {}
    /\ resp' = Response("review-put", 404,
                        "Change is impossible, no reviews for this product yet.",
                        <<>>, {}, {})
    /\ UNCHANGED <<products, sellers, cartVars, reviewVars>>

ReviewPutInvalid(u, s, id, body) ==
    /\ ProductBySlug(s) # {}
    /\ get_or_none(ReviewLookup(u, s, id)) # {}
    /\ ~ReviewSerializerValid(body)
    /\ resp' = Response("review-put", 400, "invalid", <<>>, {}, {})
    /\ UNCHANGED <<products, sellers, cartVars, reviewVars>>

ReviewPutOk(u, s, id, body) ==
    /\ ProductBySlug(s) # {}
    /\ get_or_none(ReviewLookup(u, s, id)) # {}
    /\ ReviewSerializerValid(body)
    /\ LET old == CHOOSE r \in ReviewLookup(u, s, id) : TRUE
           data == ReviewValidatedData(body)
           review == [old EXCEPT !.rating = data.rating, !.text = data.text]
       IN  /\ reviews' = (reviews \ {old}) \cup {review}
           /\ resp' = Response("review-put", 200, "", <<>>,
                               {[rating |-> review.rating, text |-> review.text]}, {})
    /\ UNCHANGED <<products, sellers, cartVars, nextReview>>

ReviewPut(u, s, id, body) ==
    \/ ReviewPutNoProduct(u, s, id, body)
    \/ ReviewPutNoReview(u, s, id, body)
    \/ ReviewPutInvalid(u, s, id, body)
    \/ ReviewPutOk(u, s, id, body)

CreateReviewPost ==
    /\ UNCHANGED inflight
    /\ \E u \in Users, s \in Slugs, body \in ReviewBodies : CreateReview(u, s, body)
ReviewItemGet ==
    /\ UNCHANGED inflight
    /\ \E u \in Users, s \in Slugs, id \in ReviewIds : ReviewGet(u, s, id)
ReviewItemDelete ==
    /\ UNCHANGED inflight
    /\ \E u \in Users, s \in Slugs, id \in ReviewIds : ReviewDelete(u, s, id)
ReviewItemPut ==
    /\ UNCHANGED inflight
    /\ \E u \in Users, s \in Slugs, id \in ReviewIds, body \in ReviewBodies :
          ReviewPut(u, s, id, body)

NextReview == CreateReviewPost \/ ReviewItemGet \/ ReviewItemDelete \/ ReviewItemPut

SpecReview == Init /\ [][NextReview]_vars

\* ------------------------------------------------------------ review claims
ReviewsOf(u, s) == {r \in reviews : r.user = u /\ r.product = s}

\* C6: for sequential callers there is at most one review per (user,
\* product) after every request; a create by a user who has a review for the
\* product answers 400 "Review already exists!" and adds nothing, and a user
\* with a review for another product still creates one for this product.
C6_OneReviewPerPair ==
    [][ /\ reviews' # reviews =>
              \A u \in Users, s \in Slugs : Cardinality(ReviewsOf(u, s))' <= 1
        /\ (resp'.op = "review-create" /\ resp'.status # 404
               /\ resp'.msg # "invalid") =>
            \A u \in Users, s \in Slugs, body \in ReviewBodies :
              CreateReview(u, s, body) =>
                 /\ ReviewsOf(u, s) # {} =>
                       /\ resp'.status = 400
                       /\ resp'.msg = "Review already exists!"
                       /\ reviews' = reviews
                 /\ (ReviewsOf(u, s) = {} /\ ProductBySlug(s) # {}
                        /\ ReviewSerializerValid(body)) =>
                       /\ resp'.status = 201
                       /\ Cardinality(ReviewsOf(u, s)') = 1
                       /\ Cardinality(reviews') = Cardinality(reviews) + 1 ]_vars

\* C6 witness: a user holds reviews of two products and the last create, a
\* second one for a product already reviewed, was rejected as a duplicate
C6_Witness ==
    /\ resp.op = "review-create" /\ resp.status = 400
    /\ resp.msg = "Review already exists!"
    /\ \E u \in Users : \E s1 \in Slugs, s2 \in Slugs :
          /\ s1 # s2
          /\ Cardinality(ReviewsOf(u, s1)) = 1
          /\ Cardinality(ReviewsOf(u, s2)) = 1

\* C10: single-review read, update and delete answer 404 whenever the
\* product slug does not resolve or no review with the given id by the
\* acting user exists for that product; none ends in a raw internal error.
C10_ReviewItemNotFound ==
    [][ \A u \in Users, s \in Slugs, id \in ReviewIds :
          ( /\ \/ ReviewGet(u, s, id)
               \/ ReviewDelete(u, s, id)
               \/ \E body \in ReviewBodies : ReviewPut(u, s, id, body)
            /\ ProductBySlug(s) = {} \/ ReviewLookup(u, s, id) = {} )
          => (resp'.status = 404 /\ resp'.msg # "raw") ]_vars

\* C11: a put or delete by user u on a review id authored by another user
\* changes nothing, so that review is still there with its rating and text
\* (no step that changes a review or answers below 400 is such a request);
\* a successful put changes only rating and text of u's own review.
C11_AuthorOnly ==
    [][ ( /\ resp'.op \in {"review-put", "review-delete"}
          /\ reviews' # reviews \/ resp'.status < 400 ) =>
        \A u \in Users, s \in Slugs, id \in ReviewIds :
          /\ ( /\ resp'.op = "review-delete"
               /\ \E r \in reviews : r.id = id /\ r.user # u )
             => ~ReviewDelete(u, s, id)
          /\ resp'.op = "review-put" =>
                \A body \in ReviewBodies :
                   ( /\ ReviewSerializerValid(body) =>
                           resp'.item = {ReviewValidatedData(body)}
                     /\ ReviewPut(u, s, id, body) ) =>
                      /\ \A r \in reviews : r.id = id => r.user = u
                      /\ \E old \in reviews : \E new \in reviews' :
                            /\ old.user = u /\ old.id = id /\ old.product = s
                            /\ new = [old EXCEPT
                                         !.rating = ReviewValidatedData(body).rating,
                                         !.text = ReviewValidatedData(body).text]
                            /\ reviews' \ {new} = reviews \ {old} ]_vars

\* C11 witness: two users hold a review each of the same product, the last
\* request was an update answered 200 with the new text, and the other
\* user's review does not carry that text
C11_Witness ==
    /\ resp.op = "review-put" /\ resp.status = 200
    /\ \E r1 \in reviews, r2 \in reviews :
          /\ r1.user # r2.user /\ r1.product = r2.product
          /\ resp.item = {[rating |-> r1.rating, text |-> r1.text]}
          /\ r2.text # r1.text

\* =================================================== seller product surface
\* the product slugs the seller requests name
SellerSlugs == {"widget", "novel"}

Prices == 1..MaxPrice

\* Category rows (by slug)
Categories == {"tools"}

\* request bodies of product create and update: a valid body per price, a
\* body failing validation, and a valid body naming no category
ProductBodies ==
    { [valid |-> TRUE, price_current |-> pr, category_slug |-> "tools"] : pr \in Prices }
    \cup { [valid |-> FALSE, price_current |-> 1, category_slug |-> "tools"],
           [valid |-> TRUE, price_current |-> 1, category_slug |-> "no-category"] }

\* Category.objects.get_or_none(slug=category_slug)
CategoryBySlug(c) == get_or_none({x \in Categories : x = c})

\* a slip: the gate lets every authenticated user through
IsSellerAnyone(u) == TRUE

\* permission_classes = [IsSeller], checked before the handler runs: the
\* acting user owns a Seller row with is_approved
IsSeller(u) == sellers[u] = "approved"

\* Seller.objects.get_or_none(user=request.user, is_approved=True)
ApprovedSeller(u) == get_or_none({v \in {u} : sellers[v] = "approved"})

\* a plausible slip: the ownership check is dropped
NotOwnerNever(product, u) == FALSE

\* product.seller != request.user.seller
NotOwner(product, u) == product.seller # u

\* a plausible slip: the previous price is archived on every update
PriceOldAlways(product, price_current) == product.price_current

\* if data['price_current'] != product.price_current:
\*     data['price_old'] = product.price_current
PriceOld(product, price_current) ==
    IF price_current # product.price_current THEN product.price_current
    ELSE product.price_old

PermissionDenied(op) == Response(op, 403, "permission denied", <<>>, {}, {})

\* ------------------------------------------------------- SellerView.post
SellerApply(u, valid) ==
    /\ IF valid
       THEN /\ sellers' = [sellers EXCEPT ![u] = IF @ = "none" THEN "pending" ELSE @]
            /\ resp' = Response("seller-apply", 201, "", <<>>, {}, {})
       ELSE /\ sellers' = sellers
            /\ resp' = Response("seller-apply", 400, "invalid", <<>>, {}, {})
    /\ UNCHANGED <<products, cartVars, reviewVars>>

\* the approval flag of a Seller row is flipped from outside (admin)
AdminToggleApproval(u) ==
    /\ sellers[u] # "none"
    /\ sellers' = [sellers EXCEPT ![u] = IF @ = "pending" THEN "approved" ELSE "pending"]
    /\ UNCHANGED <<products, cartVars, reviewVars, resp>>

\* -------------------------------------------- ProductsBySellerView.post
SellerCreateDenied(u, name, body) ==
    /\ ~IsSeller(u) \/ ApprovedSeller(u) = {}
    /\ resp' = IF ~IsSeller(u) THEN PermissionDenied("seller-create")
               ELSE Response("seller-create", 403, "Access is denied", <<>>, {}, {})
    /\ UNCHANGED <<products, sellers, cartVars, reviewVars>>

SellerCreateInvalid(u, name, body) ==
    /\ IsSeller(u) /\ ApprovedSeller(u) # {}
    /\ ~body.valid
    /\ resp' = Response("seller-create", 400, "invalid", <<>>, {}, {})
    /\ UNCHANGED <<products, sellers, cartVars, reviewVars>>

SellerCreateNoCategory(u, name, body) ==
    /\ IsSeller(u) /\ ApprovedSeller(u) # {}
    /\ body.valid
    /\ CategoryBySlug(body.category_slug) = {}
    /\ resp' = Response("seller-create", 404, "Category does not exist", <<>>, {}, {})
    /\ UNCHANGED <<products, sellers, cartVars, reviewVars>>

\* the slug is derived from the name; the model creates a product only
\* under a name whose slug is free
SellerCreateOk(u, name, body) ==
    /\ IsSeller(u) /\ ApprovedSeller(u) # {}
    /\ body.valid
    /\ CategoryBySlug(body.category_slug) # {}
    /\ ProductBySlug(name) = {}
    /\ LET new_prod == [slug |-> name, seller |-> u,
                        price_current |-> body.price_current,
                        price_old |-> NoPrice, category |-> body.category_slug]
       IN  /\ products' = products \cup {new_prod}
           /\ resp' = Response("seller-create", 200, "", <<>>, {new_prod}, {})
    /\ UNCHANGED <<sellers, cartVars, reviewVars>>

SellerCreate(u, name, body) ==
    \/ SellerCreateDenied(u, name, body)
    \/ SellerCreateInvalid(u, name, body)
    \/ SellerCreateNoCategory(u, name, body)
    \/ SellerCreateOk(u, name, body)

\* ----------------------------------------------- SellerProductView.put
SellerPutDenied(u, s, body) ==
    /\ ~IsSeller(u)
    /\ resp' = PermissionDenied("seller-put")
    /\ UNCHANGED <<products, sellers, cartVars, reviewVars>>

SellerPutNotFound(u, s, body) ==
    /\ IsSeller(u)
    /\ ProductBySlug(s) = {}
    /\ resp' = Response("seller-put", 404, "Product does not exist", <<>>, {}, {})
    /\ UNCHANGED <<products, sellers, cartVars, reviewVars>>

\* request.user.seller raises when the user has no Seller row
SellerPutNotOwner(u, s, body) ==
    /\ IsSeller(u)
    /\ \E product \in ProductBySlug(s) :
          \/ /\ sellers[u] = "none"
             /\ resp' = Response("seller-put", 500, "raw", <<>>, {}, {})
          \/ /\ sellers[u] # "none"
             /\ NotOwner(product, u)
             /\ resp' = Response("seller-put", 403, "Access is denied", <<>>, {}, {})
    /\ UNCHANGED <<products, sellers, cartVars, reviewVars>>

SellerPutInvalid(u, s, body) ==
    /\ IsSeller(u)
    /\ \E product \in ProductBySlug(s) : sellers[u] # "none" /\ ~NotOwner(product, u)
    /\ ~body.valid
    /\ resp' = Response("seller-put", 400, "invalid", <<>>, {}, {})
    /\ UNCHANGED <<products, sellers, cartVars, reviewVars>>

SellerPutNoCategory(u, s, body) ==
    /\ IsSeller(u)
    /\ \E product \in ProductBySlug(s) : sellers[u] # "none" /\ ~NotOwner(product, u)
    /\ body.valid
    /\ CategoryBySlug(body.category_slug) = {}
    /\ resp' = Response("seller-put", 404, "Category does not exist", <<>>, {}, {})
    /\ UNCHANGED <<products, sellers, cartVars, reviewVars>>

SellerPutOk(u, s, body) ==
    /\ IsSeller(u)
    /\ body.valid
    /\ CategoryBySlug(body.category_slug) # {}
    /\ \E product \in ProductBySlug(s) :
          /\ sellers[u] # "none" /\ ~NotOwner(product, u)
          /\ LET saved == [product EXCEPT
                              !.category = body.category_slug,
                              !.price_old = PriceOld(product, body.price_current),
                              !.price_current = body.price_current]
             IN  /\ products' = (products \ {product}) \cup {saved}
                 /\ resp' = Response("seller-put", 200, "", <<>>, {saved}, {})
    /\ UNCHANGED <<sellers, cartVars, reviewVars>>

SellerPut(u, s, body) ==
    \/ SellerPutDenied(u, s, body)
    \/ SellerPutNotFound(u, s, body)
    \/ SellerPutNotOwner(u, s, body)
    \/ SellerPutInvalid(u, s, body)
    \/ SellerPutNoCategory(u, s, body)
    \/ SellerPutOk(u, s, body)

\* -------------------------------------------- SellerProductView.delete
SellerDeleteDenied(u, s) ==
    /\ ~IsSeller(u)
    /\ resp' = PermissionDenied("seller-delete")
    /\ UNCHANGED <<products, sellers, cartVars, reviewVars>>

SellerDeleteNotFound(u, s) ==
    /\ IsSeller(u)
    /\ ProductBySlug(s) = {}
    /\ resp' = Response("seller-delete", 404, "Product does not exist", <<>>, {}, {})
    /\ UNCHANGED <<products, sellers, cartVars, reviewVars>>

SellerDeleteNotOwner(u, s) ==
    /\ IsSeller(u)
    /\ \E product \in ProductBySlug(s) :
          \/ /\ sellers[u] = "none"
             /\ resp' = Response("seller-delete", 500, "raw", <<>>, {}, {})
          \/ /\ sellers[u] # "none"
             /\ NotOwner(product, u)
             /\ resp' = Response("seller-delete", 403, "Access is denied", <<>>, {}, {})
    /\ UNCHANGED <<products, sellers, cartVars, reviewVars>>

SellerDeleteOk(u, s) ==
    /\ IsSeller(u)
    /\ \E product \in ProductBySlug(s) :
          /\ sellers[u] # "none" /\ ~NotOwner(product, u)
          /\ products' = products \ {product}
    /\ resp' = Response("seller-delete", 204, "Product deleted", <<>>, {}, {})
    /\ UNCHANGED <<sellers, cartVars, reviewVars>>

SellerDelete(u, s) ==
    \/ SellerDeleteDenied(u, s)
    \/ SellerDeleteNotFound(u, s)
    \/ SellerDeleteNotOwner(u, s)
    \/ SellerDeleteOk(u, s)

SellerPost ==
    /\ UNCHANGED inflight
    /\ \E u \in Users, valid \in BOOLEAN : SellerApply(u, valid)
AdminApproval ==
    /\ UNCHANGED inflight
    /\ \E u \in Users : AdminToggleApproval(u)
SellerProductsPost ==
    /\ UNCHANGED inflight
    /\ \E u \in Users, name \in SellerSlugs, body \in ProductBodies :
          SellerCreate(u, name, body)
SellerProductPut ==
    /\ UNCHANGED inflight
    /\ \E u \in Users, s \in SellerSlugs, body \in ProductBodies : SellerPut(u, s, body)
SellerProductDelete ==
    /\ UNCHANGED inflight
    /\ \E u \in Users, s \in SellerSlugs : SellerDelete(u, s)

NextSeller ==
    SellerPost \/ AdminApproval \/ SellerProductsPost \/ SellerProductPut
        \/ SellerProductDelete

SpecSeller == Init /\ [][NextSeller]_vars

\* ------------------------------------------------------------ seller claims
\* u made the product request of this step: a create, an update or a delete
SellerRequest(u) ==
    \/ \E name \in SellerSlugs, body \in ProductBodies : SellerCreate(u, name, body)
    \/ \E s \in SellerSlugs, body \in ProductBodies : SellerPut(u, s, body)
    \/ \E s \in SellerSlugs : SellerDelete(u, s)

SellerOps == {"seller-create", "seller-put", "seller-delete"}

\* C7: a user who owns no approved Seller row receives 403 on product
\* create, update and delete, decided before any existence check: the
\* response is the same whether or not the target product or category
\* exists, and nothing changes.
C7_GateBeforeExistence ==
    [][ resp'.op \in SellerOps =>
          \A u \in Users :
             (sellers[u] # "approved" /\ SellerRequest(u)) =>
                /\ resp' = PermissionDenied(resp'.op)
                /\ products' = products ]_vars

\* C7 witness: the gate refused an update although no product of the names
\* the request can carry exists
C7_Witness ==
    /\ resp = PermissionDenied("seller-put")
    /\ \E u \in Users : sellers[u] # "approved"
    /\ \A s \in SellerSlugs : ProductBySlug(s) = {}

\* C8: an update or delete of product p by a user whose seller is not
\* p.seller is answered with an error and leaves p, and every product,
\* unchanged.
C8_OnlyOwnerMutates ==
    [][ resp'.op \in {"seller-put", "seller-delete"} =>
          \A u \in Users, s \in SellerSlugs :
             ( /\ \E p \in ProductBySlug(s) : p.seller # u
               /\ \/ SellerDelete(u, s)
                  \/ \E body \in ProductBodies : SellerPut(u, s, body) )
             => (resp'.status >= 400 /\ products' = products) ]_vars

\* C8 witness: an approved seller was refused on a product of another seller
C8_Witness ==
    /\ resp.op \in {"seller-put", "seller-delete"}
    /\ resp.status = 403 /\ resp.msg = "Access is denied"
    /\ \E u \in Users, p \in products :
          sellers[u] = "approved" /\ p.slug \in SellerSlugs /\ p.seller # u

\* C9: on a successful product update price_old becomes the previous
\* price_current exactly when the submitted price differs from it, and is
\* left unchanged when the submitted price equals the current price.
C9_PriceArchive ==
    [][ (resp'.op = "seller-put" /\ resp'.status = 200) =>
          \A u \in Users, s \in SellerSlugs, body \in ProductBodies :
             SellerPut(u, s, body) =>
                \E old \in ProductBySlug(s) : \E new \in ProductBySlug(s)' :
                   /\ resp'.item = {new}
                   /\ new.price_current = body.price_current
                   /\ body.price_current # old.price_current =>
                         new.price_old = old.price_current
                   /\ body.price_current = old.price_current =>
                         new.price_old = old.price_old ]_vars

\* C9 witness: an update answered with an archived price that differs from
\* the current one
C9_Witness ==
    /\ resp.op = "seller-put" /\ resp.status = 200
    /\ \E p \in products :
          /\ resp.item = {p}
          /\ p.price_old # NoPrice
          /\ p.price_old # p.price_current

\* ===================================================== seller order listing
\* a response whose body is a list
ListResponse(op, status, data) ==
    [op |-> op, status |-> status, msg |-> "", target |-> <<>>, item |-> {},
     order |-> {}, data |-> data]

\* the OrderItem rows the join orderitems__product__seller=seller matches
\* for the order oid: its items of a product whose seller is u's
SellerJoinRows(u, oid) ==
    {i \in items : /\ i.order = oid
                   /\ \E p \in products : p.slug = i.product /\ p.seller = u}

RECURSIVE Repeat(_, _)
\* n copies of x
Repeat(x, n) == IF n = 0 THEN <<>> ELSE <<x>> \o Repeat(x, n - 1)

RECURSIVE SellerOrdersFrom(_, _)
\* the rows of the filter for the orders oid, oid - 1, ..: an order appears
\* once per matching item, as the join yields it; no distinct() is applied
SellerOrdersFrom(u, oid) ==
    IF oid = 0 THEN <<>>
    ELSE Repeat(oid, Cardinality(SellerJoinRows(u, oid)))
            \o SellerOrdersFrom(u, oid - 1)

\* Order.objects.filter(orderitems__product__seller=seller)
\*      .order_by('-created_at'): newest order first
SellerOrders(u) == SellerOrdersFrom(u, nextOrder - 1)

\* ------------------------------------------------- SellerOrdersView.get
SellerOrdersGet(u) ==
    /\ resp' = IF ~IsSeller(u) THEN PermissionDenied("seller-orders")
               ELSE ListResponse("seller-orders", 200, SellerOrders(u))
    /\ UNCHANGED <<products, sellers, cartVars, reviewVars>>

SellerOrdersList ==
    /\ UNCHANGED inflight
    /\ \E u \in Users : SellerOrdersGet(u)

NextSellerOrders == CartPost \/ CheckoutPost \/ SellerOrdersList

SpecSellerOrders == Init /\ [][NextSellerOrders]_vars

\* C19: the seller order listing holds each order at most once, and only
\* orders with at least one item of a product owned by that seller.
C19_SellerOrdersOnce ==
    [][ (resp'.op = "seller-orders" /\ resp'.status = 200) =>
        \A u \in Users :
           SellerOrdersGet(u) =>
              /\ \A k \in DOMAIN resp'.data, l \in DOMAIN resp'.data :
                    k # l => resp'.data[k] # resp'.data[l]
              /\ \A k \in DOMAIN resp'.data :
                    SellerJoinRows(u, resp'.data[k]) # {} ]_vars

\* ===================================================== interleaved requests
\* Two workers serve requests side by side.  A handler runs one database
\* statement per step; the statements of different workers interleave in any
\* order.  Each statement is atomic and commits on its own.

\* worker r goes on with the request record rec
InFlight(r, rec) == [inflight EXCEPT ![r] = rec]

\* the workers that stand before the statement pc
Pending(pc) == Cardinality({r \in Reqs : inflight[r].pc = pc})

\* ------------------------------------------------------------ CartView.get
RECURSIVE CartDataFrom(_, _)
\* the serialized cart lines of u with identifiers up to id, one entry per row
CartDataFrom(u, id) ==
    IF id = 0 THEN <<>>
    ELSE CartDataFrom(u, id - 1)
            \o (IF \E i \in CartLines(u) : i.id = id
                THEN <<OrderItemSerializer(CHOOSE i \in CartLines(u) : i.id = id)>>
                ELSE <<>>)

\* one SELECT of filter(user=user, order=None)
CartGet(u) ==
    /\ resp' = ListResponse("cart", 200, CartDataFrom(u, nextItem - 1))
    /\ UNCHANGED <<products, sellers, cartVars, reviewVars, inflight>>

\* ------------------------------------- CartView.post, statement by statement
\* validation, the product lookup and the SELECT of update_or_create; a line
\* that is found is locked by the SELECT and saved in the same transaction
ToggleStart(r, u, s, q) ==
    /\ inflight[r] = Idle
    /\ \/ ToggleInvalid(u, s, q) /\ inflight' = inflight
       \/ ToggleNoProduct(u, s, q) /\ inflight' = inflight
       \/ /\ ToggleCartItemValid(q)
          /\ ProductBySlug(s) # {}
          /\ LET found == CartLine(u, s)
                 upsert == update_or_create(u, s, q, nextItem)
             IN  IF upsert.error
                 THEN /\ resp' = Response("toggle", 500, "raw", <<>>, {}, {})
                      /\ UNCHANGED <<items, inflight>>
                 ELSE IF upsert.created
                 THEN /\ nextItem + Pending("insert") <= MaxItems
                      /\ inflight' = InFlight(r, [pc |-> "insert", user |-> u,
                                                  product |-> s, quantity |-> q])
                      /\ UNCHANGED <<items, resp>>
                 ELSE LET orderitem == CHOOSE i \in upsert.obj : TRUE
                      IN  /\ items' = upsert.rows
                          /\ IF orderitem.quantity = 0
                             THEN /\ inflight' = InFlight(r,
                                        [pc |-> "delete", user |-> u, product |-> s,
                                         id |-> orderitem.id, status_code |-> 200])
                                  /\ resp' = resp
                             ELSE /\ inflight' = inflight
                                  /\ resp' = Response("toggle", 200, "Updated in", <<>>,
                                                      {OrderItemSerializer(orderitem)}, {})
          /\ UNCHANGED <<products, sellers, reviewVars, orders, nextOrder, nextItem,
                         removed>>

\* the INSERT of update_or_create when its SELECT found no line
ToggleInsert(r) ==
    /\ inflight[r].pc = "insert"
    /\ LET req == inflight[r]
           orderitem == [id |-> nextItem, user |-> req.user, product |-> req.product,
                         quantity |-> req.quantity, order |-> NoOrder]
       IN  /\ items' = items \cup {orderitem}
           /\ IF orderitem.quantity = 0
              THEN /\ inflight' = InFlight(r,
                         [pc |-> "delete", user |-> req.user, product |-> req.product,
                          id |-> orderitem.id, status_code |-> 201])
                   /\ resp' = resp
              ELSE /\ inflight' = InFlight(r, Idle)
                   /\ resp' = Response("toggle", 201, "Added to", <<>>,
                                       {OrderItemSerializer(orderitem)}, {})
    /\ nextItem' = nextItem + 1
    /\ UNCHANGED <<products, sellers, reviewVars, orders, nextOrder, removed>>

\* orderitem.delete(): DELETE of the row with the identifier of the instance
ToggleDelete(r) ==
    /\ inflight[r].pc = "delete"
    /\ LET req == inflight[r]
       IN  /\ items' = {i \in items : i.id # req.id}
           /\ removed' = IF req.status_code = 200
                         THEN removed \cup {<<req.user, req.product>>}
                         ELSE removed
           /\ resp' = Response("toggle", req.status_code, "Removed from", <<>>, {}, {})
    /\ inflight' = InFlight(r, Idle)
    /\ UNCHANGED <<products, sellers, reviewVars, orders, nextOrder, nextItem>>

\* --------------------------------- CheckoutView.post, statement by statement
\* the cart SELECT of `if not orderitems`, the serializer, the shipping lookup
CheckoutRead(r, u, sh) ==
    /\ inflight[r] = Idle
    /\ \/ /\ CheckoutEmpty(u, sh) \/ CheckoutInvalid(u, sh) \/ CheckoutNoShipping(u, sh)
          /\ inflight' = inflight
       \/ /\ CheckoutOutcome(u, sh) = "ok"
          /\ nextOrder + Pending("create") <= MaxOrders
          /\ inflight' = InFlight(r, [pc |-> "create", user |-> u,
                                      shipping |-> CHOOSE a \in ShippingById(sh) : TRUE])
          /\ UNCHANGED <<products, sellers, cartVars, reviewVars, resp>>

\* Order.objects.create(user=user, **append_shipping_details(shipping))
CheckoutCreate(r) ==
    /\ inflight[r].pc = "create"
    /\ LET req == inflight[r]
           order == [id |-> nextOrder, user |-> req.user,
                     details |-> req.shipping.details]
       IN  /\ orders' = orders \cup {order}
           /\ inflight' = InFlight(r, [pc |-> "update", user |-> req.user,
                                       order |-> order.id])
    /\ nextOrder' = nextOrder + 1
    /\ UNCHANGED <<products, sellers, reviewVars, items, nextItem, removed, resp>>

\* orderitems.update(order=order): the UPDATE runs the filter anew
CheckoutUpdate(r) ==
    /\ inflight[r].pc = "update"
    /\ LET req == inflight[r]
       IN  /\ items' = UpdateOrder(req.user, req.order)
           /\ resp' = Response("checkout", 201, "Checkout Successful", <<>>, {},
                               {req.order})
    /\ inflight' = InFlight(r, Idle)
    /\ UNCHANGED <<products, sellers, reviewVars, orders, nextOrder, nextItem, removed>>

\* the interleaved requests are those of one user; they carry a quantity
\* that fails validation, removes or adds, and a shipping identifier that is
\* the user's own address, unknown or malformed
RaceUsers == {"u1"}
RaceQuantities == {-1, 0, 1}
RaceShippingInputs == {"s1", "s-unknown", "malformed"}

CartReads == \E u \in RaceUsers : CartGet(u)
ToggleStarts == \E r \in Reqs, u \in RaceUsers, s \in Slugs, q \in RaceQuantities :
                    ToggleStart(r, u, s, q)
ToggleInserts == \E r \in Reqs : ToggleInsert(r)
ToggleDeletes == \E r \in Reqs : ToggleDelete(r)
CheckoutReads == \E r \in Reqs, u \in RaceUsers, sh \in RaceShippingInputs :
                     CheckoutRead(r, u, sh)
CheckoutCreates == \E r \in Reqs : CheckoutCreate(r)
CheckoutUpdates == \E r \in Reqs : CheckoutUpdate(r)

NextCartRace ==
    CartReads \/ ToggleStarts \/ ToggleInserts \/ ToggleDeletes
        \/ CheckoutReads \/ CheckoutCreates \/ CheckoutUpdates

SpecCartRace == Init /\ [][NextCartRace]_vars

\* the rows attached to the order oid
OrderLines(rows, oid) == {i \in rows : i.order = oid}

\* C15: the cart lines a checkout moves are attached to its order in one
\* step, under every interleaving with cart reads, toggles and checkouts: a
\* step that attaches a line to an order finds the order without lines,
\* attaches every cart line the user has at that moment and leaves none of
\* them a cart line, so no state shows the move half done.
C15_AllOrNothing ==
    [][ items' # items =>
        \A o \in orders' :
           (OrderLines(items', o.id) \ OrderLines(items, o.id) # {}) =>
              /\ OrderLines(items, o.id) = {}
              /\ ItemIds(OrderLines(items', o.id)) = ItemIds(CartLines(o.user))
              /\ CartLines(o.user)' = {} ]_vars

\* C15 witness: a checkout has attached two lines to its order while the
\* other worker is in the middle of a request of the same user
C15_Witness ==
    /\ resp.op = "checkout" /\ resp.status = 201
    /\ \E o \in orders :
          /\ resp.order = {o.id}
          /\ Cardinality(OrderLines(items, o.id)) = 2
          /\ CartLines(o.user) = {}
          /\ \E r \in Reqs : inflight[r] # Idle /\ inflight[r].user = o.user

\* a toggle handled to completion while no worker is inside a request
ToggleBetween ==
    /\ \A r \in Reqs : inflight[r] = Idle
    /\ CartPost

\* checkouts interleaved with each other only: the toggles that fill the cart
\* come before them or after them
NextCheckoutRace ==
    ToggleBetween \/ CheckoutReads \/ CheckoutCreates \/ CheckoutUpdates

SpecCheckoutRace == Init /\ [][NextCheckoutRace]_vars

\* C17: when no worker is inside a checkout, every Order has at least one
\* item attached.
C17_NoEmptyOrder ==
    (\A r \in Reqs : inflight[r].pc \notin {"create", "update"}) =>
        \A o \in orders : OrderLines(items, o.id) # {}

\* ------------------------ CreateReviewView.post, statement by statement
\* a slip the other way: the store refuses a second row of a pair
ReviewCreateUnique(rows, new_review) ==
    IF \E x \in rows : x.user = new_review.user /\ x.product = new_review.product
    THEN rows
    ELSE rows \cup {new_review}

\* Review.objects.create(...): an INSERT; Review declares no uniqueness over
\* (user, product)
ReviewCreate(rows, new_review) == rows \cup {new_review}

\* the product lookup, the existence query and the serializer
CreateReviewCheck(r, u, s, body) ==
    /\ inflight[r] = Idle
    /\ \/ /\ \/ CreateReviewNoProduct(u, s, body)
             \/ CreateReviewDuplicate(u, s, body)
             \/ CreateReviewInvalid(u, s, body)
          /\ inflight' = inflight
       \/ /\ ProductBySlug(s) # {}
          /\ ~ReviewExists(u, s)
          /\ ReviewSerializerValid(body)
          /\ nextReview + Pending("create-review") <= MaxReviews
          /\ inflight' = InFlight(r, [pc |-> "create-review", user |-> u,
                                      product |-> s,
                                      data |-> ReviewValidatedData(body)])
          /\ UNCHANGED <<products, sellers, cartVars, reviewVars, resp>>

CreateReviewInsert(r) ==
    /\ inflight[r].pc = "create-review"
    /\ LET req == inflight[r]
           new_review == [id |-> nextReview, user |-> req.user, product |-> req.product,
                          rating |-> req.data.rating, text |-> req.data.text]
       IN  /\ reviews' = ReviewCreate(reviews, new_review)
           /\ resp' = Response("review-create", 201, "", <<>>, {req.data}, {})
    /\ nextReview' = nextReview + 1
    /\ inflight' = InFlight(r, Idle)
    /\ UNCHANGED <<products, sellers, cartVars>>

CreateReviewChecks == \E r \in Reqs, u \in Users, s \in Slugs, body \in ReviewBodies :
                          CreateReviewCheck(r, u, s, body)
CreateReviewInserts == \E r \in Reqs : CreateReviewInsert(r)

NextReviewRace == CreateReviewChecks \/ CreateReviewInserts

SpecReviewRace == Init /\ [][NextReviewRace]_vars

\* C16: a create-review request that has passed the existence check inserts
\* its review and answers 201 whatever was inserted in between, so two
\* requests of one (user, product) that both pass the check both succeed
\* (the witness: two reviews of one pair).
C16_CheckThenAct ==
    [][ \A r \in Reqs :
          (inflight[r].pc = "create-review" /\ inflight'[r] # inflight[r]) =>
             /\ inflight'[r] = Idle
             /\ resp'.op = "review-create" /\ resp'.status = 201
             /\ \E new \in reviews' \ reviews :
                   /\ new.user = inflight[r].user
                   /\ new.product = inflight[r].product
                   /\ reviews' = reviews \cup {new} ]_vars

\* C16 witness: both workers are done, the last create answered 201, and
\* one user holds two reviews of one product
C16_Witness ==
    /\ \A r \in Reqs : inflight[r] = Idle
    /\ resp.op = "review-create" /\ resp.status = 201
    /\ \E u \in Users, s \in Slugs : Cardinality(ReviewsOf(u, s)) = 2
====
